---- MODULE Spec2Model ----
(***************************************************************************)
(* Model of src/app.py, the TSX stocks viewer: the symbol normaliser        *)
(* map_to_yahoo, the ticker list loader, the post-processing of the price   *)
(* download, the tidy reshaper, the price filter, the pagination            *)
(* arithmetic and the Streamlit script that strings them together.          *)
(*                                                                          *)
(* Python strings are sequences of one-character strings.                   *)
(***************************************************************************)
EXTENDS Integers, Sequences, FiniteSets, TLC

VARIABLES
    pc,             \* position of the harness or of the script run
    symbol,         \* map_to_yahoo: the raw input
    mapped,         \* map_to_yahoo(symbol)
    remapped,       \* map_to_yahoo(map_to_yahoo(symbol))
    load_path,      \* load_ticker_list: the csv_path argument
    load_files,     \* the CSV files that exist, by path, as read by pd.read_csv
    load_out,       \* what load_ticker_list returned, and whether it warned
    f_tickers,      \* price harness: the tickers asked of the provider
    f_data,         \* the frame yf.download returned
    f_max,          \* the filter_max widget value
    f_adj,          \* download_prices' result
    f_tidy,         \* tidy_from_wide(f_adj)
    f_out,          \* to_remove and tidy_filtered of lines 116-118
    p_tickers,      \* pagination harness: the tickers of tidy_filtered
    p_keep,         \* the always-keep ticker
    p_size,         \* the page_size widget value
    p_paging,       \* all_tickers, has_keep, others, per_page, total_pages
    p_page,         \* the argument of select_page
    p_selected,     \* select_page(p_page)
    widgets,        \* the app: the values of the five settings widgets
    session_state,  \* st.session_state: holds "page" once a run reached line 131
    wide_csv,       \* dataset/tsx_adj_close_15y_wide.csv: <<>> or <<contents>>
    tidy_csv,       \* dataset/tsx_adj_close_15y_tidy.csv: <<>> or <<contents>>
    run             \* what the last run of the script did and displayed

symVars == <<symbol, mapped, remapped>>
loadVars == <<load_path, load_files, load_out>>
filtVars == <<f_tickers, f_data, f_max, f_adj, f_tidy, f_out>>
pageVars == <<p_tickers, p_keep, p_size, p_paging, p_page, p_selected>>
appVars == <<widgets, session_state, wide_csv, tidy_csv, run>>
vars == <<pc, symVars, loadVars, filtVars, pageVars, appVars>>

-----------------------------------------------------------------------------
(* Bounds *)

MaxStem == 2        \* longest free-form stem of a raw symbol
MaxRows == 3        \* most rows of a ticker CSV
MaxDates == 2       \* most trading days in a downloaded frame
MaxPrice == 2       \* highest adjusted close (prices are 1..MaxPrice)
MaxThreshold == 3   \* highest filter_max value tried
MaxTickers == 10    \* size of the ticker universe of the pagination harness
PageSizeSpan == 1   \* page sizes tried are MinPageSize..MinPageSize+PageSizeSpan
MaxPageArg == 4     \* select_page is called with 0..MaxPageArg

-----------------------------------------------------------------------------
(* Python str primitives *)

Lowercase == <<"a","b","c","d","e","f","g","h","i","j","k","l","m",
               "n","o","p","q","r","s","t","u","v","w","x","y","z">>
Uppercase == <<"A","B","C","D","E","F","G","H","I","J","K","L","M",
               "N","O","P","Q","R","S","T","U","V","W","X","Y","Z">>

\* The characters of the model in ascending code point order.
Codepoints == <<"\t", " ", ".", ":">> \o Uppercase \o Lowercase

Whitespace == {"\t", " "}

ord(c) == CHOOSE i \in DOMAIN Codepoints : Codepoints[i] = c

upper_char(c) ==
    IF \E i \in DOMAIN Lowercase : Lowercase[i] = c
    THEN Uppercase[CHOOSE i \in DOMAIN Lowercase : Lowercase[i] = c]
    ELSE c

lower_char(c) ==
    IF \E i \in DOMAIN Uppercase : Uppercase[i] = c
    THEN Lowercase[CHOOSE i \in DOMAIN Uppercase : Uppercase[i] = c]
    ELSE c

upper(s) == [i \in 1..Len(s) |-> upper_char(s[i])]
lower(s) == [i \in 1..Len(s) |-> lower_char(s[i])]

RECURSIVE lstrip(_)
lstrip(s) ==
    IF s = <<>> THEN s
    ELSE IF s[1] \in Whitespace THEN lstrip(Tail(s)) ELSE s

RECURSIVE rstrip(_)
rstrip(s) ==
    IF s = <<>> THEN s
    ELSE IF s[Len(s)] \in Whitespace THEN rstrip(SubSeq(s, 1, Len(s) - 1)) ELSE s

strip(s) == rstrip(lstrip(s))

endswith(s, suffix) ==
    /\ Len(s) >= Len(suffix)
    /\ SubSeq(s, Len(s) - Len(suffix) + 1, Len(s)) = suffix

\* s[:-n] for n >= 1
drop_last(s, n) == SubSeq(s, 1, Len(s) - n)

contains(s, c) == \E i \in 1..Len(s) : s[i] = c

\* s < t in Python's code point order
RECURSIVE str_lt(_, _)
str_lt(s, t) ==
    IF t = <<>> THEN FALSE
    ELSE IF s = <<>> THEN TRUE
    ELSE IF s[1] = t[1] THEN str_lt(Tail(s), Tail(t))
    ELSE ord(s[1]) < ord(t[1])

\* sorted(S) for a set S of strings
RECURSIVE sorted(_)
sorted(S) ==
    IF S = {} THEN <<>>
    ELSE LET m == CHOOSE x \in S : \A y \in S \ {x} : str_lt(x, y)
         IN  <<m>> \o sorted(S \ {m})

Range(f) == {f[i] : i \in DOMAIN f}

-----------------------------------------------------------------------------
(* map_to_yahoo *)

QualTSXV == <<":","T","S","X","V">>
QualTSX  == <<":","T","S","X">>
SuffixV  == <<".","V">>
SuffixTO == <<".","T","O">>

\* map_to_yahoo without the upper-casing of line 22
map_to_yahoo_no_upper(sym) ==
    LET s == strip(sym) IN
    IF s = <<>> THEN s
    ELSE IF endswith(s, QualTSXV) THEN drop_last(s, 5) \o SuffixV
    ELSE IF endswith(s, QualTSX) THEN drop_last(s, 4) \o SuffixTO
    ELSE IF contains(s, ".") THEN s ELSE s \o SuffixTO

\* map_to_yahoo appending the default suffix whether or not a "." is present
map_to_yahoo_always_suffix(sym) ==
    LET s == upper(strip(sym)) IN
    IF s = <<>> THEN s
    ELSE IF endswith(s, QualTSXV) THEN drop_last(s, 5) \o SuffixV
    ELSE IF endswith(s, QualTSX) THEN drop_last(s, 4) \o SuffixTO
    ELSE s \o SuffixTO

map_to_yahoo(sym) ==
    LET s == upper(strip(sym)) IN
    IF s = <<>> THEN s
    ELSE IF endswith(s, QualTSXV) THEN drop_last(s, 5) \o SuffixV
    ELSE IF endswith(s, QualTSX) THEN drop_last(s, 4) \o SuffixTO
    ELSE IF contains(s, ".") THEN s ELSE s \o SuffixTO

-----------------------------------------------------------------------------
(* Inputs of the symbol harness: padding, a free-form stem and up to two    *)
(* trailing qualifiers or suffixes in either letter case.                   *)

StemChars == {"A", "b", ".", ":", " "}

RECURSIVE SeqsUpTo(_, _)
SeqsUpTo(S, n) ==
    IF n = 0 THEN {<<>>}
    ELSE LET shorter == SeqsUpTo(S, n - 1)
         IN  shorter \cup {Append(s, c) : s \in shorter, c \in S}

Pads == {<<>>, <<" ">>, <<"\t", " ">>}

Endings == {<<>>, QualTSX, QualTSXV, lower(QualTSX), <<":","T","s","x","v">>,
            SuffixTO, SuffixV, <<".","t","o">>}

RawSymbols ==
    {p \o stem \o e1 \o e2 \o q :
        p \in Pads, stem \in SeqsUpTo(StemChars, MaxStem),
        e1 \in Endings, e2 \in Endings, q \in Pads}

IdleSym == symbol = <<>> /\ mapped = <<>> /\ remapped = <<>>
IdleLoad == load_path = "" /\ load_files = <<>> /\ load_out = <<>>
IdleFilt ==
    /\ f_tickers = <<>> /\ f_data = <<>> /\ f_max = 0
    /\ f_adj = <<>> /\ f_tidy = <<>> /\ f_out = <<>>
IdlePage ==
    /\ p_tickers = {} /\ p_keep = <<>> /\ p_size = 0
    /\ p_paging = <<>> /\ p_page = 0 /\ p_selected = <<>>
IdleApp ==
    /\ widgets = <<>> /\ session_state = <<>>
    /\ wide_csv = <<>> /\ tidy_csv = <<>> /\ run = <<>>

InitSym ==
    /\ pc = "raw"
    /\ symbol \in RawSymbols
    /\ mapped = <<>>
    /\ remapped = <<>>
    /\ IdleLoad /\ IdleFilt /\ IdlePage /\ IdleApp

Normalize ==
    /\ pc = "raw"
    /\ mapped' = map_to_yahoo(symbol)
    /\ pc' = "mapped"
    /\ UNCHANGED <<symbol, remapped, loadVars, filtVars, pageVars, appVars>>

Renormalize ==
    /\ pc = "mapped"
    /\ remapped' = map_to_yahoo(mapped)
    /\ pc' = "remapped"
    /\ UNCHANGED <<symbol, mapped, loadVars, filtVars, pageVars, appVars>>

NextSym == Normalize \/ Renormalize

SpecSym == InitSym /\ [][NextSym]_vars

\* C6: an input that, trimmed and upper-cased, is stem + ':TSXV' maps to
\* stem + '.V', one that is stem + ':TSX' maps to stem + '.TO', the result
\* does not end in a qualifier, and an empty or whitespace-only input maps
\* to the empty string.
C6_QualifierBecomesSuffix ==
    pc = "mapped" =>
        LET canon == upper(strip(symbol)) IN
        /\ \A k \in 0..Len(canon) :
              LET stem == SubSeq(canon, 1, k) IN
              /\ canon = stem \o QualTSXV =>
                    /\ mapped = stem \o SuffixV
                    /\ ~endswith(mapped, QualTSXV)
              /\ canon = stem \o QualTSX =>
                    /\ mapped = stem \o SuffixTO
                    /\ ~endswith(mapped, QualTSX)
        /\ (\A i \in 1..Len(symbol) : symbol[i] \in Whitespace) => mapped = <<>>

\* C6 witness: a padded, mixed-case ':TSXV' input has been mapped to '.V'.
C6_Witness ==
    /\ pc = "mapped"
    /\ symbol = <<" ", "b", ":", "T", "s", "x", "v">>
    /\ mapped = <<"B", ".", "V">>

\* C7: map_to_yahoo is idempotent: applying it to its own result returns
\* that result.
C7_Idempotent ==
    pc = "remapped" => remapped = mapped

\* C7 witness: the nested qualifier input 'A:TSX:TSXV' has been mapped twice.
C7_Witness ==
    /\ pc = "remapped"
    /\ symbol = <<"A">> \o QualTSX \o QualTSXV
    /\ mapped = <<"A">> \o QualTSX \o SuffixV
    /\ remapped = mapped

-----------------------------------------------------------------------------
(* load_ticker_list *)

\* A DataFrame read from a ticker CSV is a sequence of columns, each a name
\* and its cells; the cells are the strings astype(str) delivers.

Big6 == << <<"R","Y">> \o SuffixTO, <<"T","D">> \o SuffixTO,
           <<"B","N","S">> \o SuffixTO, <<"B","M","O">> \o SuffixTO,
           <<"C","M">> \o SuffixTO, <<"N","A">> \o SuffixTO >>

ColumnNames == { <<"t","i","c","k","e","r">>, <<"s","y","m","b","o","l">> }

\* the loop of lines 36-40: the first column named ticker or symbol, 0 if none
ticker_column(df) ==
    LET hits == {j \in DOMAIN df : lower(strip(df[j].name)) \in ColumnNames}
    IN  IF hits = {} THEN 0
        ELSE CHOOSE j \in hits : \A k \in hits : j <= k

\* .str.replace(r":TSXV?$", "", regex=True): case-sensitive, end of string
strip_qualifier(s) ==
    IF endswith(s, QualTSXV) THEN drop_last(s, 5)
    ELSE IF endswith(s, QualTSX) THEN drop_last(s, 4)
    ELSE s

load_ticker_list(csv_path, files) ==
    IF csv_path # "" /\ csv_path \in DOMAIN files
    THEN LET df == files[csv_path]
             col == ticker_column(df)
         IN  IF col = 0
             THEN [tickers |-> Big6, warned |-> TRUE]
             ELSE LET cells == df[col].cells
                      base == [i \in DOMAIN cells |-> strip_qualifier(strip(cells[i]))]
                  IN  [tickers |-> sorted({map_to_yahoo(base[i]) :
                                              i \in {k \in DOMAIN base : base[k] # <<>>}}),
                       warned |-> FALSE]
    ELSE [tickers |-> Big6, warned |-> FALSE]

(* Inputs of the loader harness *)

Headers == { << <<"T","i","c","k","e","r">> >>,
             << <<"N","a","m","e">>, <<" ","S","Y","M","B","O","L"," ">> >>,
             << <<"N","a","m","e">> >>,
             << <<"s","y","m","b","o","l">>, <<"T","i","c","k","e","r">> >> }

Cells == { <<"X">> \o QualTSXV, <<"x",":","t","s","x","v">>, <<"X">> \o QualTSX,
           <<" ","x"," ">>, <<"X">> \o SuffixV, <<" ">> }

Filler == <<"C","o">>

\* a frame whose column d holds the given cells and whose other columns hold
\* a filler value
Frame(header, d, cells) ==
    [j \in DOMAIN header |->
        [name |-> header[j],
         cells |-> IF j = d THEN cells ELSE [i \in DOMAIN cells |-> Filler]]]

Frames ==
    {Frame(h, d, cells) :
        h \in Headers, d \in 1..2, cells \in SeqsUpTo(Cells, MaxRows)}

TickerCsv == "tickers.csv"

InitLoad ==
    /\ pc = "load"
    /\ \/ load_path \in {"", "missing.csv", TickerCsv} /\ load_files = <<>>
       \/ /\ load_path \in {"", TickerCsv}
          /\ \E df \in Frames : load_files = [p \in {TickerCsv} |-> df]
    /\ load_out = <<>>
    /\ IdleSym /\ IdleFilt /\ IdlePage /\ IdleApp

Load ==
    /\ pc = "load"
    /\ load_out' = load_ticker_list(load_path, load_files)
    /\ pc' = "loaded"
    /\ UNCHANGED <<load_path, load_files, symVars, filtVars, pageVars, appVars>>

NextLoad == Load

SpecLoad == InitLoad /\ [][NextLoad]_vars

\* C9: for a CSV with a Ticker/Symbol column, load_ticker_list returns the
\* ascending, duplicate-free list of map_to_yahoo(s) over the trimmed
\* non-empty values s of that column.
C9_LoaderMapsEveryRow ==
    (/\ pc = "loaded"
     /\ load_path \in DOMAIN load_files
     /\ \E j \in DOMAIN load_files[load_path] :
           lower(strip(load_files[load_path][j].name)) \in ColumnNames)
    => LET df == load_files[load_path]
           named == {j \in DOMAIN df : lower(strip(df[j].name)) \in ColumnNames}
           first == CHOOSE j \in named : \A k \in named : j <= k
           rows == {strip(df[first].cells[i]) : i \in DOMAIN df[first].cells} \ {<<>>}
       IN  load_out.tickers = sorted({map_to_yahoo(s) : s \in rows})

-----------------------------------------------------------------------------
(* download_prices, tidy_from_wide and the price filter *)

\* A DataFrame is its index (dates), its columns and its rows of cells, one
\* cell per column. A cell is NaN or <<p>> for the price p.

NaN == <<>>
isna(v) == v = NaN

EmptyFrame == [index |-> <<>>, columns |-> <<>>, data |-> <<>>]

\* DataFrame.empty testing the rows only
empty_rows_only(df) == Len(df.index) = 0

\* DataFrame.empty: some axis has length 0
empty(df) == Len(df.index) = 0 \/ Len(df.columns) = 0

\* the elements of s at the positions K, in order
Pick(s, K) ==
    LET nth(r) == CHOOSE j \in K : Cardinality({k \in K : k < j}) = r - 1
    IN  [r \in 1..Cardinality(K) |-> s[nth(r)]]

\* data.loc[:, cols] for the column positions K
loc_columns(df, K) ==
    [index |-> df.index,
     columns |-> Pick(df.columns, K),
     data |-> [i \in DOMAIN df.data |-> Pick(df.data[i], K)]]

sort_index(df) ==
    LET n == Len(df.index)
        rank(i) == Cardinality({k \in 1..n : df.index[k] < df.index[i]}) + 1
        at(r) == CHOOSE i \in 1..n : rank(i) = r
    IN  [index |-> [r \in 1..n |-> df.index[at(r)]],
         columns |-> df.columns,
         data |-> [r \in 1..n |-> df.data[at(r)]]]

\* dropna(axis=1, how="all")
dropna_columns(df) ==
    loc_columns(df, {j \in DOMAIN df.columns :
                        \E i \in DOMAIN df.data : ~isna(df.data[i][j])})

ffill(df) ==
    [index |-> df.index,
     columns |-> df.columns,
     data |-> [i \in DOMAIN df.data |-> [j \in DOMAIN df.columns |->
                 LET seen == {k \in 1..i : ~isna(df.data[k][j])}
                 IN  IF seen = {} THEN NaN
                     ELSE df.data[CHOOSE k \in seen : \A m \in seen : m <= k][j]]]]

AdjClose == "Adj Close"
NoTicker == <<>>

\* data is what yf.download returned: with MultiIndex columns each column is
\* <<ticker, field>>, otherwise (one ticker) each column is a field, written
\* <<NoTicker, field>>.
download_prices(tickers, data) ==
    IF tickers = <<>> THEN EmptyFrame
    ELSE LET out ==
                 IF data.multi
                 THEN LET cols == {j \in DOMAIN data.columns :
                                      data.columns[j][2] = AdjClose}
                          sel == loc_columns(data, cols)
                      IN  [sel EXCEPT !.columns =
                              [j \in DOMAIN sel.columns |-> sel.columns[j][1]]]
                 ELSE LET only == tickers[1]
                          sel == loc_columns(data,
                                     {j \in DOMAIN data.columns :
                                         data.columns[j][2] = AdjClose})
                      IN  [sel EXCEPT !.columns = <<only>>]
         IN  ffill(dropna_columns(sort_index(out)))

\* melt lists the columns one after the other, each over the whole index;
\* dropna(subset=["Adj Close"]) then removes the rows without a price.
tidy_from_wide(adj) ==
    LET nr == Len(adj.index)
        nc == Len(adj.columns)
        melted == [k \in 1..(nr * nc) |->
                      LET j == ((k - 1) \div nr) + 1
                          i == ((k - 1) % nr) + 1
                      IN  [Date |-> adj.index[i], Ticker |-> adj.columns[j],
                           Price |-> adj.data[i][j]]]
    IN  SelectSeq(melted, LAMBDA r : ~isna(r.Price))

\* tidy.groupby("Ticker")["Adj Close"].max()
max_by_ticker(tidy) ==
    [t \in {tidy[k].Ticker : k \in DOMAIN tidy} |->
        LET ps == {tidy[k].Price[1] : k \in {m \in DOMAIN tidy : tidy[m].Ticker = t}}
        IN  CHOOSE p \in ps : \A q \in ps : q <= p]

\* lines 117-118 with >= in place of >
price_filter_inclusive(tidy, filter_max) ==
    LET mx == max_by_ticker(tidy)
        to_remove == sorted({t \in DOMAIN mx : mx[t] >= filter_max})
    IN  [to_remove |-> to_remove,
         tidy_filtered |-> SelectSeq(tidy, LAMBDA r : r.Ticker \notin Range(to_remove))]

\* lines 116-118
price_filter(tidy, filter_max) ==
    LET mx == max_by_ticker(tidy)
        to_remove == sorted({t \in DOMAIN mx : mx[t] > filter_max})
    IN  [to_remove |-> to_remove,
         tidy_filtered |-> SelectSeq(tidy, LAMBDA r : r.Ticker \notin Range(to_remove))]

(* Inputs of the price harness *)

TickerA == <<"A">> \o SuffixTO
TickerB == <<"B">> \o SuffixTO

PriceCells == {NaN} \cup {<<p>> : p \in 1..MaxPrice}

\* The provider's frame for the tickers: per ticker a Close and an Adj Close
\* column, the rows in the given date order, px[i][j] the adjusted close of
\* ticker j on the i-th row.
MultiFrame(tickers, dates, px) ==
    [multi |-> TRUE,
     index |-> dates,
     columns |-> [c \in 1..(2 * Len(tickers)) |->
                    <<tickers[(c + 1) \div 2],
                      IF c % 2 = 1 THEN "Close" ELSE AdjClose>>],
     data |-> [i \in DOMAIN dates |-> [c \in 1..(2 * Len(tickers)) |->
                 IF c % 2 = 1 THEN <<MaxPrice + 1>> ELSE px[i][c \div 2]]]]

\* The same for one ticker when the provider answers with plain field columns.
FlatFrame(dates, px) ==
    [multi |-> FALSE,
     index |-> dates,
     columns |-> << <<NoTicker, "Close">>, <<NoTicker, AdjClose>> >>,
     data |-> [i \in DOMAIN dates |-> <<<<MaxPrice + 1>>, px[i][1]>>]]

DateOrders ==
    UNION {{[i \in 1..n |-> i], [i \in 1..n |-> n + 1 - i]} : n \in 0..MaxDates}

Requests == {<<TickerA>>, <<TickerA, TickerB>>}

ProviderFrames(tickers) ==
    UNION {
        LET pxs == [DOMAIN dates -> [DOMAIN tickers -> PriceCells]]
        IN  {MultiFrame(tickers, dates, px) : px \in pxs}
            \cup (IF Len(tickers) = 1
                  THEN {FlatFrame(dates, px) : px \in pxs} ELSE {})
        : dates \in DateOrders}

InitFilt ==
    /\ pc = "fetch"
    /\ f_tickers \in Requests
    /\ f_data \in ProviderFrames(f_tickers)
    /\ f_max \in 0..MaxThreshold
    /\ f_adj = <<>> /\ f_tidy = <<>> /\ f_out = <<>>
    /\ IdleSym /\ IdleLoad /\ IdlePage /\ IdleApp

Download ==
    /\ pc = "fetch"
    /\ f_adj' = download_prices(f_tickers, f_data)
    /\ pc' = IF empty(f_adj') THEN "halted" ELSE "wide"
    /\ UNCHANGED <<f_tickers, f_data, f_max, f_tidy, f_out, symVars, loadVars, pageVars, appVars>>

Reshape ==
    /\ pc = "wide"
    /\ f_tidy' = tidy_from_wide(f_adj)
    /\ pc' = "tidy"
    /\ UNCHANGED <<f_tickers, f_data, f_max, f_adj, f_out, symVars, loadVars, pageVars, appVars>>

Filter ==
    /\ pc = "tidy"
    /\ f_out' = price_filter(f_tidy, f_max)
    /\ pc' = "filtered"
    /\ UNCHANGED <<f_tickers, f_data, f_max, f_adj, f_tidy, symVars, loadVars, pageVars, appVars>>

NextFilt == Download \/ Reshape \/ Filter

SpecFilt == InitFilt /\ [][NextFilt]_vars

\* C5: after the filter, a ticker of the tidy table is removed exactly when
\* one of its prices is above the threshold, the remaining tickers are those
\* whose every price is at most the threshold, and the filtered table is the
\* tidy table without the removed tickers' rows.
C5_FilterIsExact ==
    pc = "filtered" =>
        LET tickers == {f_tidy[k].Ticker : k \in DOMAIN f_tidy}
            over == {t \in tickers :
                        \E k \in DOMAIN f_tidy :
                            f_tidy[k].Ticker = t /\ f_tidy[k].Price[1] > f_max}
            left == f_out.tidy_filtered
        IN  /\ Range(f_out.to_remove) = over
            /\ {left[k].Ticker : k \in DOMAIN left} = tickers \ over
            /\ left = SelectSeq(f_tidy, LAMBDA r : r.Ticker \notin over)

\* C5 witness: ticker A peaks exactly at the threshold and stays, ticker B
\* peaks above it and is removed.
C5_Witness ==
    /\ pc = "filtered"
    /\ f_max = 1
    /\ f_out.to_remove = <<TickerB>>
    /\ \E k \in DOMAIN f_out.tidy_filtered :
          /\ f_out.tidy_filtered[k].Ticker = TickerA
          /\ f_out.tidy_filtered[k].Price = <<1>>
    /\ \E k \in DOMAIN f_tidy : f_tidy[k].Ticker = TickerB /\ f_tidy[k].Price = <<2>>

-----------------------------------------------------------------------------
(* Pagination: lines 122-139 *)

MinPageSize == 5
PAGE_SIZE == 10

Max(a, b) == IF a >= b THEN a ELSE b
Min(a, b) == IF a <= b THEN a ELSE b

\* math.ceil(a / b) for a >= 0, b >= 1
ceil_div(a, b) == IF a % b = 0 THEN a \div b ELSE (a \div b) + 1

\* s[a:b] for 0 <= a <= b
slice(s, a, b) ==
    IF a >= Len(s) THEN <<>> ELSE SubSeq(s, a + 1, Min(b, Len(s)))

\* lines 123-128 with the pinned ticker's slot not reserved
paginate_no_reserved_slot(tickers, always_keep, page_size) ==
    LET all_tickers == sorted(tickers)
        others == SelectSeq(all_tickers, LAMBDA t : t # always_keep)
    IN  [all_tickers |-> all_tickers,
         has_keep |-> always_keep \in Range(all_tickers),
         others |-> others,
         per_page |-> page_size,
         total_pages |-> Max(1, ceil_div(Len(others), Max(1, page_size)))]

\* lines 123-128; tickers are the unique tickers of tidy_filtered
paginate(tickers, always_keep, page_size) ==
    LET all_tickers == sorted(tickers)
        has_keep == always_keep \in Range(all_tickers)
        others == SelectSeq(all_tickers, LAMBDA t : t # always_keep)
        per_page == IF has_keep THEN page_size - 1 ELSE page_size
    IN  [all_tickers |-> all_tickers,
         has_keep |-> has_keep,
         others |-> others,
         per_page |-> per_page,
         total_pages |-> Max(1, ceil_div(Len(others), Max(1, per_page)))]

\* select_page pinning the ticker on the first page only
select_page_pin_first(page, pg, always_keep) ==
    LET p == Max(1, Min(page, pg.total_pages))
        start_idx == (p - 1) * pg.per_page
        end_idx == start_idx + pg.per_page
        page_others == slice(pg.others, start_idx, end_idx)
    IN  sorted(Range(IF pg.has_keep /\ p = 1
                     THEN <<always_keep>> \o page_others ELSE page_others))

\* select_page with a window one ticker too long
select_page_long_window(page, pg, always_keep) ==
    LET p == Max(1, Min(page, pg.total_pages))
        start_idx == (p - 1) * pg.per_page
        end_idx == start_idx + pg.per_page + 1
        page_others == slice(pg.others, start_idx, end_idx)
    IN  sorted(Range(IF pg.has_keep
                     THEN <<always_keep>> \o page_others ELSE page_others))

\* select_page of lines 133-139; pg is the closure's paginate result
select_page(page, pg, always_keep) ==
    LET p == Max(1, Min(page, pg.total_pages))
        start_idx == (p - 1) * pg.per_page
        end_idx == start_idx + pg.per_page
        page_others == slice(pg.others, start_idx, end_idx)
        sel == IF pg.has_keep THEN <<always_keep>> \o page_others ELSE page_others
    IN  sorted(Range(sel))

(* Inputs of the pagination harness *)

ALWAYS_KEEP == <<"C","N","R">> \o SuffixTO

TickerPool ==
    << ALWAYS_KEEP, <<"A","C">> \o SuffixTO, <<"R","Y">> \o SuffixTO,
       <<"B","M","O">> \o SuffixTO, <<"T","D">> \o SuffixTO,
       <<"B","N","S">> \o SuffixTO, <<"X">> \o SuffixV,
       <<"C","M">> \o SuffixTO, <<"N","A">> \o SuffixTO,
       <<"E","N","B">> \o SuffixTO, <<"S","U">> \o SuffixTO,
       <<"T">> \o SuffixTO, <<"W","N">> \o SuffixTO >>

PageUniverse == {TickerPool[i] : i \in 1..MaxTickers}

PageSizes == MinPageSize..(MinPageSize + PageSizeSpan)

InitPage ==
    /\ pc = "paginate"
    /\ p_tickers \in SUBSET PageUniverse
    /\ p_keep \in {ALWAYS_KEEP, <<"Z","Z",".","T","O">>, <<>>}
    /\ p_size \in PageSizes
    /\ p_paging = <<>> /\ p_page = 0 /\ p_selected = <<>>
    /\ IdleSym /\ IdleLoad /\ IdleFilt /\ IdleApp

Paginate ==
    /\ pc = "paginate"
    /\ p_paging' = paginate(p_tickers, p_keep, p_size)
    /\ pc' = "paged"
    /\ UNCHANGED <<p_tickers, p_keep, p_size, p_page, p_selected,
                   symVars, loadVars, filtVars, appVars>>

SelectPage ==
    /\ pc = "paged"
    /\ \E page \in 0..MaxPageArg :
          /\ p_page' = page
          /\ p_selected' = select_page(page, p_paging, p_keep)
    /\ pc' = "selected"
    /\ UNCHANGED <<p_tickers, p_keep, p_size, p_paging, symVars, loadVars, filtVars, appVars>>

NextPage == Paginate \/ SelectPage

SpecPage == InitPage /\ [][NextPage]_vars

\* N: the filtered tickers other than the pinned one; the page capacity the
\* claims speak of
PinPresent == p_keep \in p_tickers
NOthers == Cardinality(p_tickers \ {p_keep})
Capacity == IF PinPresent THEN p_size - 1 ELSE p_size

\* C3 as stated: total_pages = ceil(N / (P-1)) with the pinned ticker
\* present and ceil(N / P) without it, for every N >= 0.
C3_TotalPagesIsCeiling ==
    pc = "paged" =>
        /\ (p_paging.total_pages - 1) * Capacity < NOthers
        /\ NOthers <= p_paging.total_pages * Capacity

\* C3 amended: total_pages is that ceiling when N >= 1 and is 1 when N = 0.
C3_TotalPagesIsCeilingOrOne ==
    pc = "paged" =>
        IF NOthers = 0 THEN p_paging.total_pages = 1
        ELSE /\ (p_paging.total_pages - 1) * Capacity < NOthers
             /\ NOthers <= p_paging.total_pages * Capacity

\* C3 witness: the pinned ticker and nine others at page size 5 make 3 pages.
C3_Witness ==
    /\ pc = "paged"
    /\ PinPresent /\ NOthers = 9 /\ p_size = MinPageSize
    /\ p_paging.total_pages = 3

\* C4: the selection contains the pinned ticker exactly when the pinned
\* ticker is in the filtered set, whatever page is asked for.
C4_PinnedOnEveryPage ==
    pc = "selected" => (p_keep \in Range(p_selected) <=> PinPresent)

\* C4 witness: a page argument beyond total_pages still carries the pin.
C4_Witness ==
    /\ pc = "selected"
    /\ PinPresent
    /\ p_paging.total_pages >= 2
    /\ p_page > p_paging.total_pages
    /\ p_keep \in Range(p_selected)

\* C10: page k of 1..total_pages holds, besides the pinned ticker, the k-th
\* window of per_page consecutive non-pinned tickers in alphabetical order;
\* the windows of pages 1..total_pages cover every non-pinned ticker exactly
\* once, every page but the last is full, no page exceeds page_size tickers
\* and the selection is in ascending order.
C10_PagesPartitionOthers ==
    (pc = "selected" /\ p_page \in 1..p_paging.total_pages) =>
        LET rest == sorted(p_tickers \ {p_keep})
            window(k) == ((k - 1) * Capacity + 1)..Min(k * Capacity, NOthers)
        IN  /\ Range(p_selected) \ {p_keep} = {rest[i] : i \in window(p_page)}
            /\ \A i \in 1..NOthers :
                  Cardinality({k \in 1..p_paging.total_pages : i \in window(k)}) = 1
            /\ p_page < p_paging.total_pages =>
                  Cardinality(Range(p_selected) \ {p_keep}) = Capacity
            /\ Len(p_selected) <= p_size
            /\ \A i \in 1..(Len(p_selected) - 1) :
                  str_lt(p_selected[i], p_selected[i + 1])

\* C10 witness: the last of three pages holds the pin and the one ticker left.
C10_Witness ==
    /\ pc = "selected"
    /\ PinPresent /\ NOthers = 9 /\ p_size = MinPageSize
    /\ p_page = 3 /\ p_paging.total_pages = 3
    /\ Len(p_selected) = 2

-----------------------------------------------------------------------------
(* The Streamlit script: lines 77-213, run top to bottom on every event *)

YEARS == 15
MinYears == 5
DefaultFilterMax == 1000

DEFAULT_TICKER_FILE == "dataset/tsx_tickers_extracted.csv"
NoColumnCsv == "no_column.csv"
EmptyCsv == "empty.csv"

\* The CSV files of the modelled deployment.
Disk ==
    [path \in {DEFAULT_TICKER_FILE, NoColumnCsv, EmptyCsv} |->
        IF path = DEFAULT_TICKER_FILE
        THEN Frame(<< <<"T","i","c","k","e","r">> >>, 1,
                   << <<"C","N","R">> \o QualTSX, <<"A","C">> \o QualTSX,
                      <<"r","y">>, <<"B","M","O">> \o SuffixTO, <<"t","d">>,
                      <<"B","N","S">>, <<"C","M">> >>)
        ELSE IF path = NoColumnCsv
        THEN Frame(<< <<"N","a","m","e">> >>, 1, << <<"R","Y">> >>)
        ELSE Frame(<< <<"T","i","c","k","e","r">> >>, 1, <<>>)]

\* The provider's price history: two trading days, ten years and one year
\* before the end of the window; the quote of a ticker depends on its place
\* in TickerPool.
Today == 20 * 365
MarketDays == <<Today - 10 * 365, Today - 365>>

PoolIndex(t) ==
    IF \E i \in DOMAIN TickerPool : TickerPool[i] = t
    THEN CHOOSE i \in DOMAIN TickerPool : TickerPool[i] = t
    ELSE 0

Quote(t, d) ==
    LET i == PoolIndex(t) IN
    IF d = MarketDays[2] THEN <<1 + (i % 3)>>
    ELSE IF i % 2 = 0 THEN <<4>> ELSE NaN

\* What the provider does on one call: it quotes every ticker, none, or all
\* but the default pinned ticker. st.cache_data (line 51) replays an earlier
\* answer for the same (tickers, start, end) until the cache is cleared, so
\* a run sees either a replayed or a fresh answer: any of the three.
Outages == {"none", "all", "pinned"}

\* yf.download(tickers, start, end, group_by="ticker"): the trading days d
\* with start <= d < end; a ticker without data comes back as a NaN column.
yf_download(tickers, start, end, outage) ==
    LET days == SelectSeq(MarketDays, LAMBDA d : start <= d /\ d < end)
        quoted(t) == \/ outage = "none"
                     \/ outage = "pinned" /\ t # ALWAYS_KEEP
    IN  MultiFrame(tickers, days,
            [i \in DOMAIN days |-> [j \in DOMAIN tickers |->
                IF quoted(tickers[j]) THEN Quote(tickers[j], days[i]) ELSE NaN]])

\* line 145
on_prev(page) == Max(1, page - 1)

\* line 148 without the clamp
on_next_unclamped(page, total_pages) == page + 1

\* line 148
on_next(page, total_pages) == Min(total_pages, page + 1)

\* The record of a run that st.stop() ended at line 93 or line 105: the
\* names bound below the stop (to_remove, total_pages, selected, the page
\* label) do not exist in it.
Stopped(stage, warned, pressed, shape) ==
    [stage |-> stage, warned |-> warned, pressed |-> pressed, handled |-> FALSE,
     adj_shape |-> shape]

(* Widget values tried *)

CsvPaths == {DEFAULT_TICKER_FILE, NoColumnCsv, EmptyCsv}
YearsChoices == {MinYears, YEARS}
FilterChoices == {1, 2, DefaultFilterMax}
KeepTexts == {ALWAYS_KEEP, <<"r","y",".","t","o"," ">>}
PageSizeChoices == PageSizes \cup {PAGE_SIZE}

NoSession == <<>>

Init ==
    /\ pc = "app"
    /\ widgets = [csv_path |-> DEFAULT_TICKER_FILE, years |-> YEARS,
                  filter_max |-> DefaultFilterMax, always_keep |-> ALWAYS_KEEP,
                  page_size |-> PAGE_SIZE]
    /\ session_state = NoSession
    /\ wide_csv = <<>>
    /\ tidy_csv = <<>>
    /\ run = Stopped("not_run", FALSE, "none", <<0, 0>>)
    /\ IdleSym /\ IdleLoad /\ IdleFilt /\ IdlePage

\* st.stop() at line 93 or line 105: nothing below it runs
Stop(stage, warned, pressed, shape) ==
    /\ run' = Stopped(stage, warned, pressed, shape)
    /\ UNCHANGED <<session_state, wide_csv, tidy_csv>>

\* One run of the script, lines 84-213, with the widget values w and the
\* button pressed ("none", "prev" or "next"); outage is what the provider
\* does on this run.
Rerun(w, pressed) ==
    \E outage \in Outages :
    \E always_keep \in {strip(upper(w.always_keep))} :
    \E loaded \in {load_ticker_list(w.csv_path, Disk)} :
        /\ widgets' = w
        /\ UNCHANGED <<pc, symVars, loadVars, filtVars, pageVars>>
        /\ IF loaded.tickers = <<>>
           THEN Stop("no_tickers", loaded.warned, pressed, <<0, 0>>)
           ELSE
           \E end \in {Today} :
           \E start \in {end - w.years * 365} :
           \E adj \in {download_prices(loaded.tickers,
                           yf_download(loaded.tickers, start, end, outage))} :
           \E shape \in {<<Len(adj.index), Len(adj.columns)>>} :
              IF empty(adj)
              THEN Stop("no_data", loaded.warned, pressed, shape)
              ELSE
              \E tidy \in {tidy_from_wide(adj)} :
              \E flt \in {price_filter(tidy, w.filter_max)} :
              \E pg \in {paginate({flt.tidy_filtered[k].Ticker :
                                      k \in DOMAIN flt.tidy_filtered},
                                  always_keep, w.page_size)} :
              \E page0 \in {IF "page" \in DOMAIN session_state
                            THEN session_state["page"] ELSE 1} :
              \E page1 \in {IF pressed = "prev" THEN on_prev(page0) ELSE page0} :
              \E page2 \in {IF pressed = "next"
                            THEN on_next(page1, pg.total_pages) ELSE page1} :
                  /\ wide_csv' = <<adj>>
                  /\ tidy_csv' = <<tidy>>
                  /\ session_state' = [k \in {"page"} |-> page2]
                  /\ run' = [stage |-> "rendered", warned |-> loaded.warned,
                             pressed |-> pressed, handled |-> pressed # "none",
                             page_before |-> page0,
                             adj_shape |-> shape, removed |-> Len(flt.to_remove),
                             total_pages |-> pg.total_pages,
                             shown_page |-> page2,
                             selected |-> select_page(page2, pg, always_keep)]

\* the page is opened or refreshed
Refresh == pc = "app" /\ Rerun(widgets, "none")

SetCsvPath ==
    \E v \in CsvPaths \ {widgets.csv_path} :
        Rerun([widgets EXCEPT !.csv_path = v], "none")

SetYears ==
    \E v \in YearsChoices \ {widgets.years} :
        Rerun([widgets EXCEPT !.years = v], "none")

SetFilterMax ==
    \E v \in FilterChoices \ {widgets.filter_max} :
        Rerun([widgets EXCEPT !.filter_max = v], "none")

SetAlwaysKeep ==
    \E v \in KeepTexts \ {widgets.always_keep} :
        Rerun([widgets EXCEPT !.always_keep = v], "none")

SetPageSize ==
    \E v \in PageSizeChoices \ {widgets.page_size} :
        Rerun([widgets EXCEPT !.page_size = v], "none")

\* the buttons exist only on a page the last run rendered down to line 148
ClickPrev == pc = "app" /\ run.stage = "rendered" /\ Rerun(widgets, "prev")

ClickNext == pc = "app" /\ run.stage = "rendered" /\ Rerun(widgets, "next")

Next ==
    \/ Refresh
    \/ SetCsvPath
    \/ SetYears
    \/ SetFilterMax
    \/ SetAlwaysKeep
    \/ SetPageSize
    \/ ClickPrev
    \/ ClickNext

Spec == Init /\ [][Next]_vars

\* C1: in every run that reaches the pagination stage the page shown in the
\* 'Page p/total' label and the chart title is within 1..total_pages.
C1_ShownPageInRange ==
    run.stage = "rendered" =>
        (1 <= run.shown_page /\ run.shown_page <= run.total_pages)

\* C2: a handled Next click leaves the counter at most total_pages and keeps
\* it at total_pages when it was there; a handled Prev click leaves it at
\* least 1 and keeps it at 1 when it was there.
C2_ClicksClamp ==
    (run.stage = "rendered" /\ run.handled) =>
        /\ run.pressed = "next" =>
              /\ session_state["page"] <= run.total_pages
              /\ run.page_before = run.total_pages =>
                    session_state["page"] = run.total_pages
        /\ run.pressed = "prev" =>
              /\ session_state["page"] >= 1
              /\ run.page_before = 1 => session_state["page"] = 1

\* C2 witness: Next was clicked on the last of two pages and the counter
\* stayed at 2.
C2_Witness ==
    /\ run.stage = "rendered" /\ run.handled /\ run.pressed = "next"
    /\ run.total_pages = 2 /\ run.page_before = 2
    /\ session_state["page"] = 2

\* C8: a run whose price fetch came back empty (no rows or no columns)
\* stops with the error: both CSV files and the session state stay as they
\* were, nothing is filtered, paginated or selected, and a pressed button is
\* not handled.
C8_EmptyFetchHalts ==
    [][(/\ run'.stage \notin {"not_run", "no_tickers"}
        /\ (run'.adj_shape[1] = 0 \/ run'.adj_shape[2] = 0))
       => /\ run'.stage = "no_data"
          /\ wide_csv' = wide_csv
          /\ tidy_csv' = tidy_csv
          /\ session_state' = session_state
          /\ ~run'.handled
          /\ DOMAIN run' \cap {"removed", "total_pages", "shown_page", "selected"} = {}]_vars

\* C8 witness: Next was pressed on page 2, the fetch came back without a
\* single quoted column, and the counter and the files of the earlier run
\* are still there.
C8_Witness ==
    /\ run.stage = "no_data"
    /\ run.pressed = "next"
    /\ run.adj_shape[1] > 0 /\ run.adj_shape[2] = 0
    /\ "page" \in DOMAIN session_state
    /\ session_state["page"] = 2
    /\ wide_csv # <<>> /\ tidy_csv # <<>>

====
